---------------------------- MODULE Spec2Model ----------------------------
(***************************************************************************)
(* A model of the hypermedia link-tree navigator of wls-tui-py             *)
(* (src/tui_app.py): the TreePanel that turns a document's link list into  *)
(* tree nodes, and the TuiApp handlers that fetch a document and refresh   *)
(* the tree, the breadcrumb and the two output views.                      *)
(*                                                                         *)
(* Representation.  A Python str is the sequence of its character codes,   *)
(* so that casefold(), string comparison, the split of a path at '/' and   *)
(* the f-string of an action label are computed, not assumed.  A Python    *)
(* dict is a record whose DOMAIN is the set of its keys, so that           *)
(* "'href' in link" is "href" \in DOMAIN link.  None is the empty tuple.   *)
(* The tree is a function from paths (sequences of child positions) to     *)
(* nodes; <<>> is the root, <<1>> the parent-role node, <<1,1>> the        *)
(* self-role node.                                                         *)
(***************************************************************************)
EXTENDS Integers, Sequences, FiniteSets, TLC

VARIABLES
    tree,         \* TreePanel: path -> [label, data, allow_expand, expanded]
    breadcrumb,   \* LocationBar.value
    uri,          \* TuiApp.uri
    unclutter,    \* TuiApp.unclutter
    data,         \* TuiApp.data
    output_text,  \* what OutputPanelArea renders
    output_json,  \* what OutputPanelTree renders
    log,          \* the last INFO/ERROR record written by fetch_and_update
    mounted,      \* on_mount has been dispatched
    inflight,     \* the handler blocked in requests.get (line 157), or None;
                  \* its field before is history: the tree when it started
    queue,        \* messages posted to the app and not yet handled
    detached,     \* nodes of a cleared tree that queued messages still hold
    populated,    \* history: nodes a successful node-selection fetch populated
    posted,       \* history: number of messages posted so far
    fetched,      \* history: the document resp.json() returned last (line 159)
    stage         \* "session"; "input"/"done" in the one-step specification;
                  \* "keys"/"selected" in the specification of the key bindings

vars == <<tree, breadcrumb, uri, unclutter, data, output_text, output_json,
          log, mounted, inflight, queue, detached, populated, posted, fetched,
          stage>>

--------------------------------------------------------------------------
(* Bounds of the model *)

MaxRequests == 2
MaxQueue == 2
MaxLinks == 3
MaxItems == 2

--------------------------------------------------------------------------
(* Strings *)

None == <<>>

Parent == <<112, 97, 114, 101, 110, 116>>
Self == <<115, 101, 108, 102>>
Canonical == <<99, 97, 110, 111, 110, 105, 99, 97, 108>>
ActionRel == <<97, 99, 116, 105, 111, 110>>
ItemDefault == <<105, 116, 101, 109>>
LinksLabel == <<76, 105, 110, 107, 115>>
UriPrefix == <<85, 82, 73, 58, 32>>

\* str.casefold() on ASCII text: A..Z become a..z
casefold(s) == [i \in 1..Len(s) |-> IF s[i] \in 65..90 THEN s[i] + 32 ELSE s[i]]

\* Python's < on str: lexicographic by code point, a proper prefix is smaller
StrLess(a, b) ==
    \E k \in 1..(Len(b)) :
        /\ \A i \in 1..(k - 1) : i <= Len(a) /\ a[i] = b[i]
        /\ \/ Len(a) = k - 1
           \/ Len(a) >= k /\ a[k] < b[k]

\* urlparse(href).path.split('/')[-1] for an href that is a bare path
LastSegment(href) ==
    LET slashes == {i \in 1..Len(href) : href[i] = 47}
        last == IF slashes = {} THEN 0
                ELSE CHOOSE i \in slashes : \A j \in slashes : j <= i
    IN  SubSeq(href, last + 1, Len(href))

\* f"{link['rel']} ({link['title']})"
ActionLabel(rel, title) == rel \o <<32, 40>> \o title \o <<41>>

--------------------------------------------------------------------------
(* sorted(links, key=lambda x: x.get('rel', '').casefold()) *)

\* the key without casefold()
SortKeyExact(link) == IF "rel" \in DOMAIN link THEN link.rel ELSE <<>>

SortKey(link) == IF "rel" \in DOMAIN link THEN casefold(link.rel) ELSE <<>>

\* insert x after every element whose key is not greater: a stable insertion
InsertSorted(s, x) ==
    LET after == {i \in 1..Len(s) : ~StrLess(SortKey(x), SortKey(s[i]))}
        k == IF after = {} THEN 0 ELSE CHOOSE i \in after : \A j \in after : j <= i
    IN  SubSeq(s, 1, k) \o <<x>> \o SubSeq(s, k + 1, Len(s))

RECURSIVE SortFrom(_, _, _)
SortFrom(links, i, acc) ==
    IF i > Len(links) THEN acc
    ELSE SortFrom(links, i + 1, InsertSorted(acc, links[i]))

sorted_links(links) == SortFrom(links, 1, <<>>)

--------------------------------------------------------------------------
(* Textual's Tree, as far as tui_app.py uses it *)

IsChild(q, p) == Len(q) = Len(p) + 1 /\ SubSeq(q, 1, Len(p)) = p

NumChildren(t, p) == Cardinality({q \in DOMAIN t : IsChild(q, p)})

\* node.children, in order
Children(t, p) == [i \in 1..NumChildren(t, p) |-> t[Append(p, i)]]

NewNode(label, exp) ==
    [label |-> label, data |-> None, allow_expand |-> exp, expanded |-> exp]

\* self.clear(): only the root is left
ClearedTree == [p \in {<<>>} |-> NewNode(LinksLabel, TRUE)]

\* node.add(label, expand=True) / node.add_leaf(label)
AddNode(t, p, label, exp) ==
    LET q == Append(p, NumChildren(t, p) + 1)
    IN  [x \in DOMAIN t \cup {q} |-> IF x = q THEN NewNode(label, exp) ELSE t[x]]

\* self.root.expand_all()
ExpandAll(t) == [p \in DOMAIN t |-> [t[p] EXCEPT !.expanded = TRUE]]

ParentPath == <<1>>
SelfPath == <<1, 1>>


--------------------------------------------------------------------------
(* TreePanel.add_links_node.  A result is [tree, ok]: ok is FALSE when the  *)
(* loop raised (KeyError on a missing 'rel' or 'href'); the tree is then    *)
(* what the loop had built when it raised.                                  *)

\* canonical left out of the list of lines 49 and 60
StructuralWithoutCanonical == {Parent, Self}

Structural == {Parent, Self, Canonical}

\* the loop keeping the first parent and the first self link it meets
InitialStepFirstWins(st, link) ==
    IF ~st.ok THEN st
    ELSE IF "rel" \notin DOMAIN link THEN [st EXCEPT !.ok = FALSE]
    ELSE IF link.rel = Parent THEN
        IF st.tree[<<1>>].data # None THEN st
        ELSE IF "href" \notin DOMAIN link
        THEN [tree |-> [st.tree EXCEPT ![<<1>>].data = link], ok |-> FALSE]
        ELSE [tree |-> [st.tree EXCEPT ![<<1>>].data = link,
                                       ![<<1>>].label = LastSegment(link.href)],
              ok |-> TRUE]
    ELSE IF link.rel = Self THEN
        IF st.tree[<<1, 1>>].data # None THEN st
        ELSE IF "href" \notin DOMAIN link
        THEN [tree |-> [st.tree EXCEPT ![<<1, 1>>].data = link], ok |-> FALSE]
        ELSE [tree |-> [st.tree EXCEPT ![<<1, 1>>].data = link,
                                       ![<<1, 1>>].label = LastSegment(link.href)],
              ok |-> TRUE]
    ELSE IF link.rel = Canonical THEN st
    ELSE LET q == Append(<<1, 1>>, NumChildren(st.tree, <<1, 1>>) + 1)
             t1 == AddNode(st.tree, <<1, 1>>, link.rel, FALSE)
         IN  [tree |-> [t1 EXCEPT ![q].data = link], ok |-> TRUE]

\* lines 41-52: the body of the loop of the initial population
InitialStep(st, link) ==
    IF ~st.ok THEN st
    ELSE IF "rel" \notin DOMAIN link THEN [st EXCEPT !.ok = FALSE]
    ELSE IF link.rel = Parent THEN
        LET t1 == [st.tree EXCEPT ![ParentPath].data = link]
        IN  IF "href" \notin DOMAIN link THEN [tree |-> t1, ok |-> FALSE]
            ELSE [tree |-> [t1 EXCEPT ![ParentPath].label = LastSegment(link.href)],
                  ok |-> TRUE]
    ELSE IF link.rel = Self THEN
        LET t1 == [st.tree EXCEPT ![SelfPath].data = link]
        IN  IF "href" \notin DOMAIN link THEN [tree |-> t1, ok |-> FALSE]
            ELSE [tree |-> [t1 EXCEPT ![SelfPath].label = LastSegment(link.href)],
                  ok |-> TRUE]
    ELSE IF link.rel = Canonical THEN st
    ELSE LET q == Append(SelfPath, NumChildren(st.tree, SelfPath) + 1)
             t1 == AddNode(st.tree, SelfPath, link.rel, FALSE)
         IN  [tree |-> [t1 EXCEPT ![q].data = link], ok |-> TRUE]

RECURSIVE InitialLoop(_, _, _)
InitialLoop(st, links, i) ==
    IF i > Len(links) THEN st
    ELSE InitialLoop(InitialStep(st, links[i]), links, i + 1)

\* lines 35-39: clear, then the two fixed nodes
Skeleton ==
    LET t1 == AddNode(ClearedTree, <<>>, Parent, TRUE)
        t2 == AddNode(t1, ParentPath, Self, FALSE)
    IN  [t2 EXCEPT ![SelfPath].allow_expand = TRUE]

\* lines 33-53: add_links_node(links), parent_node is None
InitialPopulation(links) ==
    LET st == InitialLoop([tree |-> Skeleton, ok |-> TRUE], sorted_links(links), 1)
    IN  IF st.ok THEN [tree |-> ExpandAll(st.tree), ok |-> TRUE] ELSE st

\* line 62-65: the label of a leaf under a selected node
LeafLabel(link) ==
    IF link.rel = ActionRel /\ "title" \in DOMAIN link
    THEN ActionLabel(link.rel, link.title)
    ELSE link.rel

\* a leaf whose label is already among the children of p is overwritten
PopulateStepLastWins(st, link, p) ==
    IF ~st.ok THEN st
    ELSE IF "rel" \notin DOMAIN link THEN [st EXCEPT !.ok = FALSE]
    ELSE IF link.rel \in {Parent, Self, Canonical} THEN st
    ELSE LET same == {i \in 1..NumChildren(st.tree, p) :
                         st.tree[Append(p, i)].label = LeafLabel(link)}
             q == Append(p, NumChildren(st.tree, p) + 1)
             t1 == AddNode(st.tree, p, LeafLabel(link), FALSE)
         IN  IF same # {}
             THEN [tree |-> [st.tree EXCEPT
                               ![Append(p, CHOOSE i \in same : TRUE)].data = link],
                   ok |-> TRUE]
             ELSE [tree |-> [t1 EXCEPT ![q].data = link, ![p].allow_expand = TRUE],
                   ok |-> TRUE]

\* lines 60-67: the body of the loop under a selected node p
PopulateStep(st, link, p) ==
    IF ~st.ok THEN st
    ELSE IF "rel" \notin DOMAIN link THEN [st EXCEPT !.ok = FALSE]
    ELSE IF link.rel \in Structural THEN st
    ELSE LET q == Append(p, NumChildren(st.tree, p) + 1)
             t1 == AddNode(st.tree, p, LeafLabel(link), FALSE)
         IN  [tree |-> [t1 EXCEPT ![q].data = link, ![p].allow_expand = TRUE],
              ok |-> TRUE]

RECURSIVE PopulateLoop(_, _, _, _)
PopulateLoop(st, links, i, p) ==
    IF i > Len(links) THEN st
    ELSE PopulateLoop(PopulateStep(st, links[i], p), links, i + 1, p)

\* the guard of line 56 dropped
HasChildrenIgnored(t, p) == FALSE

\* line 56: "if parent_node.children"
HasChildren(t, p) == NumChildren(t, p) > 0

\* the links added under the node whether or not it has children
PopulateNodeUnguarded(t, links, p) ==
    PopulateLoop([tree |-> t, ok |-> TRUE], sorted_links(links), 1, p)

\* lines 54-67: add_links_node(links, parent_node) on the node at path p
PopulateNode(t, links, p) ==
    IF HasChildren(t, p) THEN [tree |-> t, ok |-> TRUE]
    ELSE PopulateLoop([tree |-> t, ok |-> TRUE], sorted_links(links), 1, p)

\* TreePanel.add_links_node(links, parent_node=None); a node is named by a
\* record with its path
add_links_node(t, links, parent_node) ==
    IF parent_node = None THEN InitialPopulation(links)
    ELSE PopulateNode(t, links, parent_node.path)

--------------------------------------------------------------------------
(* TuiApp.fetch_and_update, from the return of requests.get on *)

\* the test of line 179 dropped: every link of an item is promoted
PromoteLinkAnyRel(acc, item, link) ==
    IF ~acc.ok THEN acc
    ELSE IF "rel" \notin DOMAIN link THEN [acc EXCEPT !.ok = FALSE]
    ELSE IF "href" \notin DOMAIN link THEN [acc EXCEPT !.ok = FALSE]
    ELSE IF "links" \notin DOMAIN acc.doc THEN [acc EXCEPT !.ok = FALSE]
    ELSE LET links_item ==
                 [rel |-> IF "name" \in DOMAIN item THEN item.name ELSE ItemDefault,
                  href |-> link.href]
         IN  [acc EXCEPT !.doc.links = Append(@, links_item)]

\* data_i.get('name', '') in place of data_i.get('name', 'item')
PromoteLinkEmptyDefault(acc, item, link) ==
    IF ~acc.ok THEN acc
    ELSE IF "rel" \notin DOMAIN link THEN [acc EXCEPT !.ok = FALSE]
    ELSE IF link.rel # Canonical THEN acc
    ELSE IF "href" \notin DOMAIN link THEN [acc EXCEPT !.ok = FALSE]
    ELSE IF "links" \notin DOMAIN acc.doc THEN [acc EXCEPT !.ok = FALSE]
    ELSE LET links_item ==
                 [rel |-> IF "name" \in DOMAIN item THEN item.name ELSE <<>>,
                  href |-> link.href]
         IN  [acc EXCEPT !.doc.links = Append(@, links_item)]

\* lines 179-184: one link of one item; acc is [doc, ok]
PromoteLink(acc, item, link) ==
    IF ~acc.ok THEN acc
    ELSE IF "rel" \notin DOMAIN link THEN [acc EXCEPT !.ok = FALSE]
    ELSE IF link.rel # Canonical THEN acc
    ELSE IF "href" \notin DOMAIN link THEN [acc EXCEPT !.ok = FALSE]
    ELSE IF "links" \notin DOMAIN acc.doc THEN [acc EXCEPT !.ok = FALSE]
    ELSE LET links_item ==
                 [rel |-> IF "name" \in DOMAIN item THEN item.name ELSE ItemDefault,
                  href |-> link.href]
         IN  [acc EXCEPT !.doc.links = Append(@, links_item)]

RECURSIVE PromoteLinks(_, _, _)
PromoteLinks(acc, item, j) ==
    IF j > Len(item.links) THEN acc
    ELSE PromoteLinks(PromoteLink(acc, item, item.links[j]), item, j + 1)

\* lines 176-184: one item
PromoteItem(acc, item) ==
    IF "links" \in DOMAIN item THEN PromoteLinks(acc, item, 1) ELSE acc

RECURSIVE PromoteItems(_, _, _)
PromoteItems(acc, items, i) ==
    IF i > Len(items) THEN acc
    ELSE PromoteItems(PromoteItem(acc, items[i]), items, i + 1)

\* lines 173-184: the document with the links promoted from its items appended
Promote(doc) ==
    IF "items" \in DOMAIN doc
    THEN PromoteItems([doc |-> doc, ok |-> TRUE], doc.items, 1)
    ELSE [doc |-> doc, ok |-> TRUE]

\* line 167: data.get('links', [])
LinksOrEmpty(doc) == IF "links" \in DOMAIN doc THEN doc.links ELSE <<>>

\* lines 185-186: current_node.allow_expand = True; current_node.expand()
ExpandNode(t, p) == [t EXCEPT ![p].allow_expand = TRUE, ![p].expanded = TRUE]

\* the items promoted on every fetch, the initial population included
UpdateLinksPanelPromoting(t, doc, current_node) ==
    LET pr == Promote(doc)
    IN  IF current_node = None THEN
            LET r == add_links_node(t, LinksOrEmpty(pr.doc), None)
            IN  [tree |-> r.tree, doc |-> pr.doc, ok |-> pr.ok /\ r.ok]
        ELSE
            LET t1 == IF "items" \in DOMAIN doc THEN ExpandNode(t, current_node.path)
                      ELSE t
            IN  IF ~pr.ok THEN [tree |-> t, doc |-> pr.doc, ok |-> FALSE]
                ELSE IF "links" \in DOMAIN pr.doc THEN
                    LET r == add_links_node(t1, pr.doc.links, current_node)
                    IN  [tree |-> r.tree, doc |-> pr.doc, ok |-> r.ok]
                ELSE [tree |-> t1, doc |-> pr.doc, ok |-> TRUE]

\* lines 166-188: the tree update for a fetched document.  The result is
\* [tree, doc, ok]: doc is data as the loop left it.
UpdateLinksPanel(t, doc, current_node) ==
    IF current_node = None THEN
        LET r == add_links_node(t, LinksOrEmpty(doc), None)
        IN  [tree |-> r.tree, doc |-> doc, ok |-> r.ok]
    ELSE
        LET pr == Promote(doc)
            t1 == IF "items" \in DOMAIN doc THEN ExpandNode(t, current_node.path)
                  ELSE t
        IN  IF ~pr.ok THEN [tree |-> t, doc |-> pr.doc, ok |-> FALSE]
            ELSE IF "links" \in DOMAIN pr.doc THEN
                LET r == add_links_node(t1, pr.doc.links, current_node)
                IN  [tree |-> r.tree, doc |-> pr.doc, ok |-> r.ok]
            ELSE [tree |-> t1, doc |-> pr.doc, ok |-> TRUE]

\* line 191: data.pop('links', None)
PopLinks(doc) == [k \in DOMAIN doc \ {"links"} |-> doc[k]]

\* lines 190-192: what is displayed after a successful update
Displayed(doc, declutter) == IF declutter THEN PopLinks(doc) ELSE doc

\* line 198: data = f'"error": "{str(e)}"'
ErrorData(reason) == [error |-> reason]

\* the exceptions of lines 157-159
FetchErrors == {"ConnectionError", "HTTPError", "JSONDecodeError"}

\* the exception of a failed subscript in lines 41-65 and 179-184
KeyError == "KeyError"

\* the log records of lines 156, 195 and 197
LogFetching(u) == [level |-> "INFO", event |-> "Fetching", uri |-> u]
LogFetched(u) == [level |-> "INFO", event |-> "Fetched", uri |-> u]
LogError(u) == [level |-> "ERROR", event |-> "Error", uri |-> u]

--------------------------------------------------------------------------
(* The documents the server may return and the URIs the user may type *)

Link(rel, href) == [rel |-> rel, href |-> href]

UApi == <<47, 97, 112, 105>>
URoot == <<47>>
UOrders == <<47, 97, 112, 105, 47, 111, 114, 100, 101, 114, 115>>
UOrder1 == <<47, 97, 112, 105, 47, 111, 114, 100, 101, 114, 115, 47, 49>>
ROrders == <<111, 114, 100, 101, 114, 115>>
RO1 == <<111, 49>>
RNote == <<110, 111, 116, 101>>

\* TuiApp(start_uri)
StartUri == UApi

Uris == {UApi, UOrders}

DocRoot ==
    [name |-> "api",
     links |-> <<Link(Self, UApi), Link(ROrders, UOrders), Link(Parent, URoot)>>]

DocOrders ==
    [name |-> "orders",
     links |-> <<Link(Canonical, UOrders)>>,
     items |-> <<[name |-> RO1, links |-> <<Link(Canonical, UOrder1)>>],
                 [name |-> Self, links |-> <<Link(Canonical, UOrders)>>]>>]

DocCanon == [name |-> "canon", links |-> <<Link(Canonical, UOrder1)>>]

DocBare == [name |-> "o1"]

DocItemsOnly ==
    [name |-> "list",
     items |-> <<[name |-> RO1, links |-> <<Link(Canonical, UOrder1)>>]>>]

DocNoHref == [name |-> "nohref", links |-> <<[rel |-> RNote]>>]

DocNoRel == [name |-> "norel", links |-> <<Link(ROrders, UOrders), [href |-> UOrder1]>>]

Docs == {DocRoot, DocOrders, DocCanon, DocBare, DocItemsOnly, DocNoHref, DocNoRel}

\* what requests.get / raise_for_status / resp.json() may produce
Responses ==
    {[ok |-> FALSE, error |-> e] : e \in FetchErrors}
        \cup {[ok |-> TRUE, doc |-> d] : d \in Docs}

--------------------------------------------------------------------------
(* The session.  Textual runs the handlers of the app one at a time; a      *)
(* handler that calls fetch_and_update blocks in requests.get, and messages *)
(* posted meanwhile wait in the queue.  A handler is therefore two steps:   *)
(* its start, up to the call of requests.get, and fetch_and_update from the *)
(* return of requests.get to the end of the handler.                        *)

\* A node is named by [age, path]: age 0 is the tree on display, age k a
\* tree that clear() has discarded k initial populations ago.
NodeRef(age, path) == [age |-> age, path |-> path]

Submitted(value) == [type |-> "Submitted", value |-> value]

NodeSelected(node, nodeData) == [type |-> "NodeSelected", node |-> node, data |-> nodeData]

\* the nodes the messages in q refer to
Referenced(q) == {q[i].node : i \in {j \in 1..Len(q) : q[j].type = "NodeSelected"}}

\* clear() turns every node a message holds into a node of a discarded tree
Aged(q) ==
    [i \in 1..Len(q) |->
        IF q[i].type = "NodeSelected"
        THEN [q[i] EXCEPT !.node.age = @ + 1]
        ELSE q[i]]

\* the discarded nodes with children, among those still referenced
DetachedAfterClear(t, d, q) ==
    {NodeRef(n.age + 1, n.path) :
        n \in {m \in Referenced(q) :
                 IF m.age = 0 THEN HasChildren(t, m.path) ELSE m \in d}}

\* a discarded node, as a tree of its own
Scratch(hasChildren) ==
    IF hasChildren THEN AddNode(ClearedTree, <<>>, <<>>, FALSE) ELSE ClearedTree

\* TuiApp.__init__ and compose: TreePanel([]), LocationBar(f"URI: {self.uri}")
Init ==
    /\ tree = InitialPopulation(<<>>).tree
    /\ breadcrumb = UriPrefix \o StartUri
    /\ uri = StartUri
    /\ unclutter = TRUE
    /\ data = None
    /\ output_text = None
    /\ output_json = None
    /\ log = None
    /\ mounted = FALSE
    /\ inflight = None
    /\ queue = <<>>
    /\ detached = {}
    /\ populated = {}
    /\ posted = 0
    /\ fetched = None
    /\ stage = "session"

\* TuiApp.setUnclutter, called between construction and run()
setUnclutter(value) ==
    /\ stage = "session"
    /\ ~mounted
    /\ unclutter # value
    /\ unclutter' = value
    /\ UNCHANGED <<tree, breadcrumb, uri, data, output_text, output_json, log,
                   mounted, inflight, queue, detached, populated, posted, fetched, stage>>

\* lines 153-157: fetch_and_update up to the call of requests.get
StartFetch(u, current_node) ==
    /\ log' = LogFetching(u)
    /\ inflight' = [uri |-> u, node |-> current_node, before |-> tree]

\* TuiApp.on_mount
on_mount ==
    /\ stage = "session"
    /\ ~mounted
    /\ mounted' = TRUE
    /\ StartFetch(uri, None)
    /\ UNCHANGED <<tree, breadcrumb, uri, unclutter, data, output_text,
                   output_json, queue, detached, populated, posted, fetched, stage>>

\* the user submits the location bar: Input.Submitted is posted to the app
PostSubmitted(value) ==
    /\ stage = "session"
    /\ mounted
    /\ posted < MaxRequests
    /\ Len(queue) < MaxQueue
    /\ queue' = Append(queue, Submitted(value))
    /\ posted' = posted + 1
    /\ UNCHANGED <<tree, breadcrumb, uri, unclutter, data, output_text,
                   output_json, log, mounted, inflight, detached, populated, fetched,
                   stage>>

\* the user selects a node of the tree: Tree.NodeSelected is posted to the app
PostNodeSelected(p) ==
    /\ stage = "session"
    /\ mounted
    /\ posted < MaxRequests
    /\ Len(queue) < MaxQueue
    /\ queue' = Append(queue, NodeSelected(NodeRef(0, p), tree[p].data))
    /\ posted' = posted + 1
    /\ UNCHANGED <<tree, breadcrumb, uri, unclutter, data, output_text,
                   output_json, log, mounted, inflight, detached, populated, fetched,
                   stage>>

\* a handler that starts although a fetch is outstanding
on_input_submitted_preempting ==
    /\ stage = "session"
    /\ queue # <<>>
    /\ Head(queue).type = "Submitted"
    /\ uri' = Head(queue).value
    /\ StartFetch(Head(queue).value, None)
    /\ queue' = Tail(queue)
    /\ UNCHANGED <<tree, breadcrumb, unclutter, data, output_text, output_json,
                   mounted, detached, populated, posted, fetched, stage>>

\* TuiApp.on_input_submitted, up to the call of requests.get
on_input_submitted ==
    /\ stage = "session"
    /\ inflight = None
    /\ queue # <<>>
    /\ Head(queue).type = "Submitted"
    /\ uri' = Head(queue).value
    /\ StartFetch(Head(queue).value, None)
    /\ queue' = Tail(queue)
    /\ UNCHANGED <<tree, breadcrumb, unclutter, data, output_text, output_json,
                   mounted, detached, populated, posted, fetched, stage>>

\* line 233: "if node and node.data and 'href' in node.data"
Selectable(nodeData) == nodeData # None /\ "href" \in DOMAIN nodeData

\* a handler that skips the nodes already populated
on_tree_node_selected_once ==
    /\ stage = "session"
    /\ inflight = None
    /\ queue # <<>>
    /\ Head(queue).type = "NodeSelected"
    /\ queue' = Tail(queue)
    /\ IF Selectable(Head(queue).data) /\ Head(queue).node.path \notin populated
       THEN /\ StartFetch(Head(queue).data.href, Head(queue).node)
            /\ UNCHANGED detached
       ELSE /\ UNCHANGED <<log, inflight>>
            /\ detached' = detached \cap Referenced(Tail(queue))
    /\ UNCHANGED <<tree, breadcrumb, uri, unclutter, data, output_text,
                   output_json, mounted, populated, posted, fetched, stage>>

\* a handler that falls back on self.uri for a node without an href
on_tree_node_selected_fallback ==
    /\ stage = "session"
    /\ inflight = None
    /\ queue # <<>>
    /\ Head(queue).type = "NodeSelected"
    /\ queue' = Tail(queue)
    /\ IF Selectable(Head(queue).data)
       THEN StartFetch(Head(queue).data.href, Head(queue).node)
       ELSE StartFetch(uri, Head(queue).node)
    /\ UNCHANGED <<tree, breadcrumb, uri, unclutter, data, output_text,
                   output_json, mounted, detached, populated, posted, fetched, stage>>

\* TuiApp.on_tree_node_selected, up to the call of requests.get
on_tree_node_selected ==
    /\ stage = "session"
    /\ inflight = None
    /\ queue # <<>>
    /\ Head(queue).type = "NodeSelected"
    /\ queue' = Tail(queue)
    /\ IF Selectable(Head(queue).data)
       THEN /\ StartFetch(Head(queue).data.href, Head(queue).node)
            /\ UNCHANGED detached
       ELSE /\ UNCHANGED <<log, inflight>>
            /\ detached' = detached \cap Referenced(Tail(queue))
    /\ UNCHANGED <<tree, breadcrumb, uri, unclutter, data, output_text,
                   output_json, mounted, populated, posted, fetched, stage>>

\* the except branch without the refresh of the JSON view
ShowErrorTextOnly(u, reason) ==
    /\ data' = ErrorData(reason)
    /\ output_text' = ErrorData(reason)
    /\ output_json' = output_json
    /\ log' = LogError(u)

\* lines 196-201: the except branch
ShowError(u, reason) ==
    /\ data' = ErrorData(reason)
    /\ output_text' = ErrorData(reason)
    /\ output_json' = ErrorData(reason)
    /\ log' = LogError(u)

\* lines 189-195: the views are refreshed from the document
ShowDocument(u, doc) ==
    /\ data' = Displayed(doc, unclutter)
    /\ output_text' = Displayed(doc, unclutter)
    /\ output_json' = Displayed(doc, unclutter)
    /\ log' = LogFetched(u)

\* the tree the current node of the request belongs to, and the node in it
TreeOf(node) ==
    IF node = None THEN tree
    ELSE IF node.age = 0 THEN tree
    ELSE Scratch(node \in detached)

NodeIn(node) ==
    IF node = None THEN None
    ELSE IF node.age = 0 THEN node
    ELSE NodeRef(node.age, <<>>)

\* a failed response handled as an empty document
FetchFailedAsEmpty(req, reason) ==
    /\ ShowError(req.uri, reason)
    /\ tree' = InitialPopulation(<<>>).tree
    /\ detached' = detached \cap Referenced(queue)
    /\ UNCHANGED <<breadcrumb, queue, populated, fetched>>

\* lines 157-159 raise: the except branch runs and nothing else has changed
FetchFailed(req, reason) ==
    /\ ShowError(req.uri, reason)
    /\ detached' = detached \cap Referenced(queue)
    /\ UNCHANGED <<tree, breadcrumb, queue, populated, fetched>>

\* lines 157-201 for the request req = [uri, node] when requests.get returns
\* resp: everything the rest of the handler changes
Complete(req, resp) ==
    IF ~resp.ok
    THEN FetchFailed(req, resp.error)
    ELSE LET node == req.node
             r == UpdateLinksPanel(TreeOf(node), resp.doc, NodeIn(node))
         IN  /\ fetched' = resp.doc
             /\ breadcrumb' = req.uri
             /\ IF node = None
                THEN /\ tree' = r.tree
                     /\ queue' = Aged(queue)
                     /\ detached' = DetachedAfterClear(tree, detached, queue)
                     /\ populated' = {}
                ELSE IF node.age = 0
                THEN /\ tree' = r.tree
                     /\ populated' = IF r.ok /\ "links" \in DOMAIN r.doc
                                     THEN populated \cup {node.path}
                                     ELSE populated
                     /\ detached' = detached \cap Referenced(queue)
                     /\ UNCHANGED queue
                ELSE /\ detached' =
                            (IF HasChildren(r.tree, <<>>)
                             THEN detached \cup {node} ELSE detached)
                                \cap Referenced(queue)
                     /\ UNCHANGED <<tree, queue, populated>>
             /\ IF r.ok
                THEN ShowDocument(req.uri, r.doc)
                ELSE ShowError(req.uri, KeyError)

\* TuiApp.fetch_and_update, lines 157-201: requests.get returns resp and the
\* handler runs to its end
fetch_and_update(resp) ==
    /\ stage = "session"
    /\ inflight # None
    /\ inflight' = None
    /\ Complete(inflight, resp)
    /\ UNCHANGED <<uri, unclutter, mounted, posted, stage>>

Next ==
    \/ \E value \in BOOLEAN : setUnclutter(value)
    \/ on_mount
    \/ \E value \in Uris : PostSubmitted(value)
    \/ \E p \in DOMAIN tree : PostNodeSelected(p)
    \/ on_input_submitted
    \/ on_tree_node_selected
    \/ \E resp \in Responses : fetch_and_update(resp)

Spec == Init /\ [][Next]_vars

\* requests.get returns or raises, and Textual handles every posted message
Fairness ==
    /\ WF_vars(on_mount)
    /\ WF_vars(on_input_submitted)
    /\ WF_vars(on_tree_node_selected)
    /\ WF_vars(\E resp \in Responses : fetch_and_update(resp))

FairSpec == Spec /\ Fairness

--------------------------------------------------------------------------
(* One handler on an arbitrary document.  The app has loaded DocRoot; one   *)
(* Input.Submitted or Tree.NodeSelected is then handled from its start to   *)
(* its end, for every document of a bounded family: link lists of up to     *)
(* MaxLinks links and item lists of up to MaxItems items.                   *)

RZeta == <<90, 101, 116, 97>>
Ralpha == <<97, 108, 112, 104, 97>>
RAlpha == <<65, 108, 112, 104, 97>>
RBeta == <<66, 101, 116, 97>>
TGo == <<103, 111>>

SeqsUpTo(S, n) == UNION {[1..k -> S] : k \in 0..n}

GenLinks ==
    {Link(Parent, URoot), Link(Parent, UApi), Link(Self, UApi), Link(Self, UOrders),
     Link(Canonical, UApi), Link(RZeta, UApi), Link(Ralpha, UApi),
     Link(RAlpha, UOrders), Link(RBeta, UApi),
     [rel |-> ActionRel, href |-> UApi, title |-> TGo], [href |-> UOrder1]}

GenItemLinks ==
    {<<Link(Canonical, UOrder1)>>,
     <<Link(Canonical, UOrder1), Link(Canonical, UApi)>>,
     <<Link(Ralpha, UApi), Link(Canonical, UOrder1)>>,
     <<[href |-> UOrder1]>>}

GenItems ==
    {[name |-> n, links |-> l] : n \in {RO1, Self}, l \in GenItemLinks}
        \cup {[links |-> l] : l \in GenItemLinks}
        \cup {[name |-> RO1]}

GenDocs ==
    {[name |-> "gen", links |-> l] : l \in SeqsUpTo(GenLinks, MaxLinks)}
        \cup {[name |-> "gen", links |-> l, items |-> it] :
                 l \in {<<>>, <<Link(Ralpha, UApi)>>},
                 it \in SeqsUpTo(GenItems, MaxItems)}
        \cup {[name |-> "gen", items |-> it] : it \in SeqsUpTo(GenItems, MaxItems)}

\* the state after on_mount has loaded DocRoot
StepInit ==
    /\ unclutter \in BOOLEAN
    /\ tree = InitialPopulation(DocRoot.links).tree
    /\ breadcrumb = StartUri
    /\ uri = StartUri
    /\ data = Displayed(DocRoot, unclutter)
    /\ output_text = Displayed(DocRoot, unclutter)
    /\ output_json = Displayed(DocRoot, unclutter)
    /\ log = LogFetched(StartUri)
    /\ mounted = TRUE
    /\ inflight = None
    /\ queue = <<>>
    /\ detached = {}
    /\ populated = {}
    /\ posted = 0
    /\ fetched = DocRoot
    /\ stage = "input"

\* on_input_submitted, from the message to the end of fetch_and_update
StepSubmitted ==
    /\ stage = "input"
    /\ stage' = "done"
    /\ uri' = UOrders
    /\ \E doc \in GenDocs :
          Complete([uri |-> UOrders, node |-> None], [ok |-> TRUE, doc |-> doc])
    /\ UNCHANGED <<unclutter, mounted, inflight, posted>>

\* on_tree_node_selected, from the message to the end of fetch_and_update
StepNodeSelected ==
    /\ stage = "input"
    /\ stage' = "done"
    /\ \E p \in {q \in DOMAIN tree : Selectable(tree[q].data)}, doc \in GenDocs :
          Complete([uri |-> tree[p].data.href, node |-> NodeRef(0, p)],
                   [ok |-> TRUE, doc |-> doc])
    /\ UNCHANGED <<uri, unclutter, mounted, inflight, posted>>

StepNext == StepSubmitted \/ StepNodeSelected

StepSpec == StepInit /\ [][StepNext]_vars

--------------------------------------------------------------------------
(* The key bindings.  The app has loaded DocRoot; the user expands and      *)
(* collapses nodes and selects one node, whose handler runs from its start  *)
(* to its end.  tree_panel.cursor_node is state of Textual's Tree that      *)
(* tui_app.py only reads (lines 213, 219, 225): it is an input of the       *)
(* actions, any node of the tree on display or None.  action_cursor_up,     *)
(* action_cursor_down and action_cursor_parent move that cursor and change  *)
(* nothing of the state modelled here.                                      *)

\* the values self.tree_panel.cursor_node may have
CursorNodes == {None} \cup {NodeRef(0, p) : p \in DOMAIN tree}

\* the state after on_mount has loaded DocRoot
KeyInit ==
    /\ unclutter \in BOOLEAN
    /\ tree = InitialPopulation(DocRoot.links).tree
    /\ breadcrumb = StartUri
    /\ uri = StartUri
    /\ data = Displayed(DocRoot, unclutter)
    /\ output_text = Displayed(DocRoot, unclutter)
    /\ output_json = Displayed(DocRoot, unclutter)
    /\ log = LogFetched(StartUri)
    /\ mounted = TRUE
    /\ inflight = None
    /\ queue = <<>>
    /\ detached = {}
    /\ populated = {}
    /\ posted = 0
    /\ fetched = DocRoot
    /\ stage = "keys"

\* TuiApp.action_expand_node: node.expand() on the node under the cursor
action_expand_node ==
    /\ stage \in {"keys", "selected"}
    /\ \E node \in CursorNodes :
          IF node # None
          THEN tree' = [tree EXCEPT ![node.path].expanded = TRUE]
          ELSE UNCHANGED tree
    /\ UNCHANGED <<breadcrumb, uri, unclutter, data, output_text, output_json,
                   log, mounted, inflight, queue, detached, populated, posted,
                   fetched, stage>>

\* a collapse that also drops the children of the node
action_collapse_node_removing ==
    /\ stage \in {"keys", "selected"}
    /\ \E node \in CursorNodes :
          IF node # None
          THEN tree' =
                  [p \in {q \in DOMAIN tree :
                             Len(q) <= Len(node.path)
                                \/ SubSeq(q, 1, Len(node.path)) # node.path} |->
                      IF p = node.path THEN [tree[p] EXCEPT !.expanded = FALSE]
                      ELSE tree[p]]
          ELSE UNCHANGED tree
    /\ UNCHANGED <<breadcrumb, uri, unclutter, data, output_text, output_json,
                   log, mounted, inflight, queue, detached, populated, posted,
                   fetched, stage>>

\* TuiApp.action_collapse_node: node.collapse() on the node under the cursor
action_collapse_node ==
    /\ stage \in {"keys", "selected"}
    /\ \E node \in CursorNodes :
          IF node # None
          THEN tree' = [tree EXCEPT ![node.path].expanded = FALSE]
          ELSE UNCHANGED tree
    /\ UNCHANGED <<breadcrumb, uri, unclutter, data, output_text, output_json,
                   log, mounted, inflight, queue, detached, populated, posted,
                   fetched, stage>>

\* on_tree_node_selected, from the message to the end of fetch_and_update
KeyNodeSelected ==
    /\ stage = "keys"
    /\ stage' = "selected"
    /\ posted' = posted + 1
    /\ \E p \in DOMAIN tree :
          IF Selectable(tree[p].data)
          THEN \E resp \in Responses :
                  Complete([uri |-> tree[p].data.href, node |-> NodeRef(0, p)], resp)
          ELSE UNCHANGED <<tree, breadcrumb, data, output_text, output_json, log,
                           queue, detached, populated, fetched>>
    /\ UNCHANGED <<uri, unclutter, mounted, inflight>>

KeyNext == action_expand_node \/ action_collapse_node \/ KeyNodeSelected

KeySpec == KeyInit /\ [][KeyNext]_vars

--------------------------------------------------------------------------
(* Properties *)

\* the children of the node at p: their labels and links, in order
ChildSeq(t, p) ==
    [i \in 1..NumChildren(t, p) |->
        [label |-> t[Append(p, i)].label, data |-> t[Append(p, i)].data]]

\* the labels and links of all nodes
NodeSet(t) == [p \in DOMAIN t |-> [label |-> t[p].label, data |-> t[p].data]]

OrdersPath == <<1, 1, 1>>

\* C1, as claimed: once a node has been populated by a successful
\* node-selection fetch, no later step changes its sequence of children.
C1_PopulatedChildrenFixed ==
    [][\A p \in populated \cap populated' : ChildSeq(tree', p) = ChildSeq(tree, p)]_vars

\* C1, amended: once a node has been populated by a successful node-selection
\* fetch and has at least one child, no later step changes its sequence of
\* children.
C1_NonEmptyChildrenFixed ==
    [][\A p \in populated \cap populated' :
          NumChildren(tree, p) > 0 => ChildSeq(tree', p) = ChildSeq(tree, p)]_vars

\* the orders node, populated with o1 from DocOrders, was selected again, the
\* fetch returned DocRoot, and o1 is still its only child
C1_Witness ==
    /\ inflight = None
    /\ OrdersPath \in populated
    /\ fetched = DocRoot
    /\ log = LogFetched(UOrders)
    /\ NumChildren(tree, OrdersPath) = 1
    /\ tree[Append(OrdersPath, 1)].label = RO1

\* the step that handles a Tree.NodeSelected message
SelectStep ==
    /\ inflight = None
    /\ queue # <<>>
    /\ Head(queue).type = "NodeSelected"
    /\ queue' = Tail(queue)

\* C2, as claimed: selecting a node that is already populated issues no fetch.
C2_NoRefetch ==
    [][(SelectStep /\ Head(queue).node.age = 0
            /\ Head(queue).node.path \in populated)
          => inflight' = None]_vars

\* C2, amended: selecting a node whose link has an href issues a fetch every
\* time, populated or not; when the node is populated and has children, the
\* completion of that fetch changes no node of the tree.
C2_RefetchKeepsNodes ==
    [][/\ (SelectStep /\ Head(queue).data # None
              /\ "href" \in DOMAIN Head(queue).data)
          => /\ inflight' # None
             /\ inflight'.uri = Head(queue).data.href
             /\ inflight'.node = Head(queue).node
       /\ (inflight # None /\ inflight' = None /\ inflight.node # None
              /\ inflight.node.age = 0
              /\ inflight.node.path \in populated
              /\ NumChildren(tree, inflight.node.path) > 0)
          => NodeSet(tree') = NodeSet(tree)]_vars

\* a fetch is in flight for a node that is populated and has children
C2_Witness ==
    /\ inflight # None
    /\ inflight.node # None
    /\ inflight.node.age = 0
    /\ inflight.node.path \in populated
    /\ NumChildren(tree, inflight.node.path) > 0

\* C3: when a fetch fails (connection error, HTTP status, undecodable JSON),
\* the tree after the failure is the tree of the moment the fetch was issued.
C3_FailureKeepsTree ==
    [][(inflight # None /\ inflight' = None
            /\ "error" \in DOMAIN data' /\ data'.error \in FetchErrors)
          => (tree' = inflight.before /\ tree' = tree)]_vars

\* a fetch has failed after a successful initial load and a population
C3_Witness ==
    /\ inflight = None
    /\ log # None
    /\ log.event = "Error"
    /\ "error" \in DOMAIN data
    /\ data.error \in FetchErrors
    /\ NumChildren(tree, SelfPath) > 0
    /\ populated # {}

\* C4: no node below the self-role node carries a link with rel parent, self
\* or canonical; a link with rel parent is carried by the parent-role node
\* only, one with rel self by the self-role node only.
C4_NoStructuralChild ==
    \A p \in DOMAIN tree :
        /\ Len(p) >= 3 =>
              /\ tree[p].data # None
              /\ "rel" \in DOMAIN tree[p].data
              /\ tree[p].data.rel \notin {Parent, Self, Canonical}
              /\ tree[p].label \notin {Parent, Self, Canonical}
        /\ (tree[p].data # None /\ "rel" \in DOMAIN tree[p].data) =>
              /\ tree[p].data.rel = Parent => p = ParentPath
              /\ tree[p].data.rel = Self => p = SelfPath
              /\ tree[p].data.rel # Canonical

\* the orders node was populated from DocOrders, which has a canonical link
\* and an item named self: o1 is its only child
C4_Witness ==
    /\ OrdersPath \in populated
    /\ fetched = DocOrders
    /\ ChildSeq(tree, OrdersPath) =
           <<[label |-> RO1, data |-> Link(RO1, UOrder1)]>>

\* a message in q that will start a fetch
IsRequest(m) ==
    IF m.type = "Submitted" THEN TRUE
    ELSE m.data # None /\ "href" \in DOMAIN m.data

\* C5, as claimed: when a new request has arrived while a fetch is
\* outstanding, the completion of that fetch changes neither the tree, nor the
\* output views, nor the breadcrumb, nor the current URI.
C5_EarlierCancelled ==
    [][(inflight # None /\ inflight' = None
            /\ \E i \in 1..Len(queue) : IsRequest(queue[i]))
          => /\ tree' = tree
             /\ output_text' = output_text
             /\ output_json' = output_json
             /\ breadcrumb' = breadcrumb
             /\ uri' = uri]_vars

\* C5, amended: a request that arrives while a fetch is outstanding does not
\* cancel it.  The outstanding handler is never replaced, only finished; a
\* new handler starts only when none is outstanding, with the oldest waiting
\* message; and until the outstanding handler finishes, the tree, the views
\* and the breadcrumb do not change.
C5_OneAtATimeInOrder ==
    [][/\ (inflight # None /\ inflight' # inflight) => inflight' = None
       /\ (mounted /\ inflight' # None /\ inflight' # inflight)
          => /\ inflight = None
             /\ queue # <<>>
             /\ queue' = Tail(queue)
             /\ IsRequest(Head(queue))
             /\ inflight'.uri = IF Head(queue).type = "Submitted"
                                THEN Head(queue).value
                                ELSE Head(queue).data.href
       /\ (inflight # None /\ inflight' = inflight)
          => /\ tree' = tree
             /\ output_text' = output_text
             /\ output_json' = output_json
             /\ breadcrumb' = breadcrumb]_vars

\* a fetch is outstanding and a newer request waits in the queue
C5_Witness ==
    /\ inflight # None
    /\ mounted
    /\ log = LogFetching(inflight.uri)
    /\ queue # <<>>
    /\ IsRequest(queue[Len(queue)])

\* the document of the last successful fetch, as the claim has it displayed
ClaimedDisplay ==
    IF unclutter THEN [k \in DOMAIN fetched \ {"links"} |-> fetched[k]] ELSE fetched

\* C6, as claimed: after a successful fetch both views show the document that
\* fetch returned, without its links field when declutter is enabled.
C6_ViewsShowFetched ==
    (log # None /\ log.event = "Fetched")
        => (output_text = ClaimedDisplay /\ output_json = ClaimedDisplay)

\* the links of the children of the node at p, in order
ChildLinks(t, p) == [i \in 1..NumChildren(t, p) |-> t[Append(p, i)].data]

\* the children of p are in ascending case-insensitive order of rel
Ascending(t, p) ==
    \A i, j \in 1..NumChildren(t, p) :
        i < j => ~StrLess(casefold(ChildLinks(t, p)[j].rel),
                          casefold(ChildLinks(t, p)[i].rel))

\* the links of s whose rel is k when case is ignored, in the order of s
WithKey(s, k) == SelectSeq(s, LAMBDA x : casefold(x.rel) = k)

\* kids are the links of the list that are no structural role, those that
\* compare equal case-insensitively in their order in the list
StableFrom(kids, links) ==
    LET nav == SelectSeq(links, LAMBDA x : x.rel \notin {Parent, Self, Canonical})
    IN  \A k \in {casefold(nav[i].rel) : i \in 1..Len(nav)}
                \cup {casefold(kids[i].rel) : i \in 1..Len(kids)} :
            WithKey(kids, k) = WithKey(nav, k)

\* the handler of the one-step specification was on_input_submitted
StepWasSubmitted == stage = "done" /\ uri = UOrders

\* C7: the children of every node are in ascending case-insensitive order of
\* rel; after a successful initial population or population of a node, links
\* that compare equal keep their order in the document.
C7_SortedStable ==
    /\ \A p \in DOMAIN tree : Len(p) >= 2 => Ascending(tree, p)
    /\ (StepWasSubmitted /\ log.event = "Fetched")
          => StableFrom(ChildLinks(tree, SelfPath), LinksOrEmpty(fetched))
    /\ (stage = "done" /\ populated = {OrdersPath} /\ "items" \notin DOMAIN fetched)
          => StableFrom(ChildLinks(tree, OrdersPath), fetched.links)

\* Zeta, alpha, Beta under the selected node: alpha, Beta, Zeta
C7_Witness ==
    /\ stage = "done"
    /\ populated = {OrdersPath}
    /\ fetched.links = <<Link(RZeta, UApi), Link(Ralpha, UApi), Link(RBeta, UApi)>>
    /\ ChildLinks(tree, OrdersPath) =
           <<Link(Ralpha, UApi), Link(RBeta, UApi), Link(RZeta, UApi)>>

\* the positions of the canonical links of an item
CanonicalAt(item) ==
    IF "links" \in DOMAIN item
    THEN {j \in 1..Len(item.links) :
             "rel" \in DOMAIN item.links[j] /\ item.links[j].rel = Canonical}
    ELSE {}

\* the links appended to the links of the fetched document, read off the
\* displayed document when declutter is off
Promoted ==
    IF "links" \in DOMAIN data /\ "links" \in DOMAIN fetched
    THEN SubSeq(data.links, Len(fetched.links) + 1, Len(data.links))
    ELSE <<>>

\* a node selection has been handled to its end on a document with items,
\* declutter off
PromotionDone ==
    /\ stage = "done"
    /\ uri = StartUri
    /\ ~unclutter
    /\ log.event = "Fetched"
    /\ "items" \in DOMAIN fetched

\* C8, as claimed: one promoted link per item that carries a canonical link,
\* with the name of the item as rel and the href of that canonical link, and
\* none for the other items.
C8_OnePerItem ==
    LET carriers == SelectSeq(fetched.items, LAMBDA it : CanonicalAt(it) # {})
    IN  (PromotionDone
            /\ \A i \in 1..Len(carriers) : "name" \in DOMAIN carriers[i])
        => /\ Len(Promoted) = Len(carriers)
           /\ \A i \in 1..Len(carriers) :
                 /\ Promoted[i].rel = carriers[i].name
                 /\ \E j \in CanonicalAt(carriers[i]) :
                       Promoted[i].href = carriers[i].links[j].href

\* the canonical links of the items, as <<item position, link position>>
CanonicalPairs ==
    UNION {{<<i, j>> : j \in CanonicalAt(fetched.items[i])} :
              i \in 1..Len(fetched.items)}

PairRank(pr) ==
    Cardinality({q \in CanonicalPairs :
                    q[1] < pr[1] \/ (q[1] = pr[1] /\ q[2] <= pr[2])})

\* C8, amended: one promoted link per canonical link of each item, in the
\* order of the items and of their links, with the href of that canonical
\* link and, for an item that has a name, the name as rel; none for an item
\* without a canonical link or without links.
C8_OnePerCanonicalLink ==
    PromotionDone
        => /\ Len(Promoted) = Cardinality(CanonicalPairs)
           /\ \A pr \in CanonicalPairs :
                 /\ Promoted[PairRank(pr)].href =
                        fetched.items[pr[1]].links[pr[2]].href
                 /\ "name" \in DOMAIN fetched.items[pr[1]]
                       => Promoted[PairRank(pr)].rel = fetched.items[pr[1]].name

\* one item with two canonical links was promoted to two links
C8_Witness ==
    /\ PromotionDone
    /\ fetched.items =
           <<[name |-> RO1,
              links |-> <<Link(Canonical, UOrder1), Link(Canonical, UApi)>>]>>
    /\ Promoted = <<Link(RO1, UOrder1), Link(RO1, UApi)>>

\* the last handler ended in the except branch
Failed == inflight = None /\ log # None /\ log.event = "Error"

RelAt(rel) ==
    {i \in 1..Len(fetched.links) :
        "rel" \in DOMAIN fetched.links[i] /\ fetched.links[i].rel = rel}

\* an initial population has been done to its end
InitialDone ==
    StepWasSubmitted /\ log.event = "Fetched" /\ "links" \in DOMAIN fetched

\* the node at p carries the link at position i of the fetched document and
\* is labelled with the last segment of its path
CarriesLink(p, i) ==
    /\ tree[p].data = fetched.links[i]
    /\ tree[p].label = LastSegment(fetched.links[i].href)

\* C10, as claimed: of several links with rel parent (or self) the first in
\* document order gives the parent (self) node its link and label.
C10_FirstWins ==
    InitialDone
        => /\ RelAt(Parent) # {} =>
                 CarriesLink(ParentPath,
                     CHOOSE i \in RelAt(Parent) : \A j \in RelAt(Parent) : i <= j)
           /\ RelAt(Self) # {} =>
                 CarriesLink(SelfPath,
                     CHOOSE i \in RelAt(Self) : \A j \in RelAt(Self) : i <= j)

\* C10, amended: of several links with rel parent (or self) the last in
\* document order gives the parent (self) node its link and label.
C10_LastWins ==
    InitialDone
        => /\ RelAt(Parent) # {} =>
                 CarriesLink(ParentPath,
                     CHOOSE i \in RelAt(Parent) : \A j \in RelAt(Parent) : j <= i)
           /\ RelAt(Self) # {} =>
                 CarriesLink(SelfPath,
                     CHOOSE i \in RelAt(Self) : \A j \in RelAt(Self) : j <= i)

\* two parent links, "/" before "/api": the parent node is "api"
C10_Witness ==
    /\ InitialDone
    /\ fetched.links = <<Link(Parent, URoot), Link(Parent, UApi)>>
    /\ tree[ParentPath].data = Link(Parent, UApi)
    /\ tree[ParentPath].label = <<97, 112, 105>>

\* a link entry without rel or without href
MalformedLink(l) == "rel" \notin DOMAIN l \/ "href" \notin DOMAIN l

\* the links of the items of a document, one sequence per item that has links
ItemLinkSeqs(doc) ==
    IF "items" \in DOMAIN doc
    THEN {doc.items[i].links :
             i \in {j \in 1..Len(doc.items) : "links" \in DOMAIN doc.items[j]}}
    ELSE {}

\* the document has a malformed entry among its links or its items' links
HasMalformed(doc) ==
    \/ \E i \in 1..Len(LinksOrEmpty(doc)) : MalformedLink(LinksOrEmpty(doc)[i])
    \/ \E ls \in ItemLinkSeqs(doc) : \E i \in 1..Len(ls) : MalformedLink(ls[i])

\* the step in which a handler ends after requests.get returned a document
DocumentReturned ==
    /\ inflight # None
    /\ inflight' = None
    /\ ~("error" \in DOMAIN data' /\ data'.error \in FetchErrors)

\* C11, as claimed: a fetched document with a link entry that lacks rel or
\* href is still loaded: the handler ends with the record "Fetched", and the
\* views show the document, not an error.
C11_MalformedStillLoads ==
    [][(DocumentReturned /\ HasMalformed(fetched'))
          => (log'.event = "Fetched" /\ "error" \notin DOMAIN data')]_vars

\* C12, as claimed: a node-selection fetch that returns a document with items
\* and without links is loaded, and the selected node gets the links promoted
\* from the items as children.
C12_ItemsWithoutLinksLoad ==
    [][(DocumentReturned /\ inflight.node # None /\ inflight.node.age = 0
            /\ "items" \in DOMAIN fetched' /\ "links" \notin DOMAIN fetched'
            /\ ~HasMalformed(fetched'))
          => /\ log'.event = "Fetched"
             /\ (NumChildren(tree, inflight.node.path) = 0
                    /\ \E ls \in ItemLinkSeqs(fetched') :
                          \E i \in 1..Len(ls) : ls[i].rel = Canonical)
                => NumChildren(tree', inflight.node.path) > 0]_vars

\* the links of a list that become children: those with no structural rel,
\* in the order of the sort
Navigable(links) ==
    SelectSeq(sorted_links(links), LAMBDA x : x.rel \notin {Parent, Self, Canonical})

\* the link the claims have promoted from the canonical link pr of an item
PromotedFrom(pr) ==
    [rel |-> fetched.items[pr[1]].name, href |-> fetched.items[pr[1]].links[pr[2]].href]

\* the fetched document has items, all of them named, with well-formed links
NamedItems ==
    /\ "items" \in DOMAIN fetched
    /\ ~HasMalformed(fetched)
    /\ \A i \in 1..Len(fetched.items) : "name" \in DOMAIN fetched.items[i]

\* C13, as claimed: after a successful Submit-URI the links promoted from the
\* items of the document are children of the self node, as they are children
\* of the selected node after a node selection.
C13_PromotedOnEveryFetch ==
    (InitialDone /\ NamedItems)
        => \A pr \in CanonicalPairs :
              PromotedFrom(pr).rel \notin {Parent, Self, Canonical}
                 => \E i \in 1..NumChildren(tree, SelfPath) :
                       ChildLinks(tree, SelfPath)[i] = PromotedFrom(pr)

\* C13, amended: only a node selection promotes.  After a successful
\* Submit-URI the children of the self node are the navigable links of the
\* document's own links and no item becomes a child; after a successful node
\* selection of a node without children, the children of that node are the
\* navigable links of the document's links followed by the promoted links.
C13_PromotedOnSelectionOnly ==
    /\ InitialDone
          => ChildLinks(tree, SelfPath) = Navigable(fetched.links)
    /\ (stage = "done" /\ populated = {OrdersPath} /\ log.event = "Fetched"
           /\ NamedItems)
          => /\ \A pr \in CanonicalPairs :
                   PromotedFrom(pr).rel \notin {Parent, Self, Canonical}
                      => \E i \in 1..NumChildren(tree, OrdersPath) :
                            ChildLinks(tree, OrdersPath)[i] = PromotedFrom(pr)
             /\ ~unclutter
                   => ChildLinks(tree, OrdersPath) = Navigable(data.links)

\* a Submit-URI loaded a document with the item o1: the self node has the
\* child alpha and no child o1
C13_Witness ==
    /\ InitialDone
    /\ fetched.links = <<Link(Ralpha, UApi)>>
    /\ "items" \in DOMAIN fetched
    /\ fetched.items = <<[name |-> RO1, links |-> <<Link(Canonical, UOrder1)>>]>>
    /\ ChildLinks(tree, SelfPath) = <<Link(Ralpha, UApi)>>

\* C14, as claimed: the current URI changes only in the step in which a fetch
\* completes successfully, and a fetch that fails (connection error, HTTP
\* status, undecodable JSON) leaves the breadcrumb and the current URI as the
\* last successful fetch set them.
C14_UriOfLastSuccess ==
    [][/\ uri' # uri
          => (inflight # None /\ inflight' = None /\ log'.event = "Fetched")
       /\ (inflight # None /\ inflight' = None
              /\ "error" \in DOMAIN data' /\ data'.error \in FetchErrors)
          => (breadcrumb' = breadcrumb /\ uri' = uri)]_vars

\* C15: the handler of a node selection starts a fetch exactly when the
\* selected node carries a link with an href, and then for that href and that
\* node; otherwise it changes neither the tree, nor the views, nor the
\* breadcrumb, and starts nothing.
C15_FetchIffHref ==
    [][SelectStep
          => IF Head(queue).data # None /\ "href" \in DOMAIN Head(queue).data
             THEN /\ inflight' # None
                  /\ inflight'.uri = Head(queue).data.href
                  /\ inflight'.node = Head(queue).node
             ELSE /\ inflight' = None
                  /\ tree' = tree
                  /\ output_text' = output_text
                  /\ output_json' = output_json
                  /\ data' = data
                  /\ breadcrumb' = breadcrumb
                  /\ log' = log]_vars

\* the next message to handle is the selection of the leaf note, whose link
\* has no href, and one of a node without a link waits behind it
C15_Witness ==
    /\ inflight = None
    /\ log = LogFetched(StartUri)
    /\ Len(queue) = 2
    /\ queue[1].type = "NodeSelected"
    /\ queue[1].data = [rel |-> RNote]
    /\ tree[queue[1].node.path].data = [rel |-> RNote]
    /\ queue[2].type = "NodeSelected"
    /\ queue[2].data = None

\* what a selection of the node at p that fetches doc would make of tree t
SelectionOutcome(t, doc, p) ==
    LET r == UpdateLinksPanel(t, doc, NodeRef(0, p))
    IN  [nodes |-> NodeSet(r.tree), ok |-> r.ok]

\* C16: a step of an expand or collapse request flips the expanded flag of
\* one node and changes nothing else: no fetch is started or recorded, no node
\* is added or removed, no label or link changes, and what a later selection
\* of any node would make of the tree is the same as before the step.
C16_OnlyExpandedFlag ==
    [][(stage' = stage)
          => /\ inflight = None /\ inflight' = None
             /\ queue' = queue
             /\ log' = log /\ fetched' = fetched
             /\ data' = data /\ output_text' = output_text
             /\ output_json' = output_json /\ breadcrumb' = breadcrumb
             /\ populated' = populated
             /\ NodeSet(tree') = NodeSet(tree)
             /\ \E p \in DOMAIN tree :
                   tree' = [tree EXCEPT ![p].expanded = ~tree[p].expanded]
             /\ \A p \in DOMAIN tree, doc \in Docs :
                   SelectionOutcome(tree', doc, p) = SelectionOutcome(tree, doc, p)]_vars

\* the self node and the orders node are collapsed, and the selection of the
\* orders node has populated it with one child
C16_Witness ==
    /\ stage = "selected"
    /\ OrdersPath \in populated
    /\ log = LogFetched(UOrders)
    /\ ~tree[SelfPath].expanded
    /\ ~tree[OrdersPath].expanded
    /\ NumChildren(tree, OrdersPath) = 1

\* the canonical links of the items that have no name
UnnamedPairs == {pr \in CanonicalPairs : "name" \notin DOMAIN fetched.items[pr[1]]}

\* str(i) for a one-digit i
Digit(i) == <<48 + i>>

\* C17, as claimed: the link promoted from an item without a name has the
\* position of the item in items (counted from 0 or from 1) as its rel, so
\* that the links of two such items have different rels.
C17_IndexAsRel ==
    PromotionDone
        => /\ \A pr \in UnnamedPairs :
                 Promoted[PairRank(pr)].rel \in {Digit(pr[1] - 1), Digit(pr[1])}
           /\ \A pr, qr \in UnnamedPairs :
                 pr[1] # qr[1]
                    => Promoted[PairRank(pr)].rel # Promoted[PairRank(qr)].rel

\* C17, amended: the link promoted from an item without a name has the rel
\* "item", whatever the position of the item, so that the links of two such
\* items have the same rel.
C17_ItemAsRel ==
    PromotionDone
        => /\ Len(Promoted) = Cardinality(CanonicalPairs)
           /\ \A pr \in UnnamedPairs : Promoted[PairRank(pr)].rel = ItemDefault

\* two items without a name were promoted to two links with the rel "item"
C17_Witness ==
    /\ PromotionDone
    /\ Len(fetched.items) = 2
    /\ \A i \in 1..2 : fetched.items[i] = [links |-> <<Link(Canonical, UOrder1)>>]
    /\ Promoted = <<Link(ItemDefault, UOrder1), Link(ItemDefault, UOrder1)>>

\* a node selection has populated the orders node from a document whose
\* items are all named and well-formed
SelectionDone ==
    /\ stage = "done"
    /\ populated = {OrdersPath}
    /\ log.event = "Fetched"
    /\ NamedItems

\* the positions of the children of the orders node with the given label
LeavesLabelled(n) ==
    {a \in 1..NumChildren(tree, OrdersPath) : tree[Append(OrdersPath, a)].label = n}

\* the canonical links of the items with the given name
PairsNamed(n) == {pr \in CanonicalPairs : fetched.items[pr[1]].name = n}

\* the item names that are not a structural rel
LeafNames ==
    {fetched.items[i].name : i \in 1..Len(fetched.items)} \ {Parent, Self, Canonical}

\* C18, as claimed: when two items with the same name both carry a canonical
\* link, the populated node has one leaf with that label, and the leaf
\* carries the href promoted last.
C18_LastWriteWins ==
    SelectionDone
        => \A n \in LeafNames :
              (\E pr, qr \in PairsNamed(n) : pr[1] # qr[1])
                 => /\ Cardinality(LeavesLabelled(n)) = 1
                    /\ \A a \in LeavesLabelled(n) :
                          \E pr \in PairsNamed(n) :
                             /\ \A qr \in PairsNamed(n) : PairRank(qr) <= PairRank(pr)
                             /\ ChildLinks(tree, OrdersPath)[a] = PromotedFrom(pr)

\* C18, amended: nothing collides.  Every canonical link of every named item
\* has a leaf of its own under the populated node, labelled with the name of
\* the item and carrying the href of that link; the leaves of items with the
\* same name are siblings with the same label, in the order of the items.
C18_EveryItemKeepsItsLeaf ==
    SelectionDone
        => \A n \in LeafNames :
              /\ Cardinality(LeavesLabelled(n)) =
                    Cardinality(PairsNamed(n))
                       + Cardinality({i \in 1..Len(fetched.links) :
                                         fetched.links[i].rel = n})
              /\ \A pr \in PairsNamed(n) :
                    \E a \in LeavesLabelled(n) :
                       /\ ChildLinks(tree, OrdersPath)[a] = PromotedFrom(pr)
                       /\ Cardinality({b \in LeavesLabelled(n) : b > a}) =
                             Cardinality({qr \in PairsNamed(n) :
                                             PairRank(qr) > PairRank(pr)})

\* two items named o1: the first has the leaves /api/orders/1 and /api, the
\* second a third leaf o1
C18_Witness ==
    /\ SelectionDone
    /\ fetched.items =
           <<[name |-> RO1,
              links |-> <<Link(Canonical, UOrder1), Link(Canonical, UApi)>>],
             [name |-> RO1, links |-> <<Link(Canonical, UOrder1)>>]>>
    /\ ChildSeq(tree, OrdersPath) =
           <<[label |-> RO1, data |-> Link(RO1, UOrder1)],
             [label |-> RO1, data |-> Link(RO1, UApi)],
             [label |-> RO1, data |-> Link(RO1, UOrder1)]>>

\* C19, as claimed: with declutter disabled, the links field of the document
\* that both views show after a successful node-selection fetch is the links
\* sequence the fetch returned, without the links promoted from the items.
C19_DisplayedLinksAsFetched ==
    [][(DocumentReturned /\ inflight.node # None /\ ~unclutter
            /\ log'.event = "Fetched" /\ "links" \in DOMAIN fetched')
          => /\ "links" \in DOMAIN output_text'
             /\ output_text'.links = fetched'.links
             /\ "links" \in DOMAIN output_json'
             /\ output_json'.links = fetched'.links]_vars

\* C20: the root always has exactly one child, the parent-role node, and the
\* parent-role node exactly one child, the self-role node; the completion of
\* a node selection, successful or failed, adds no child to either, also when
\* the selected node is the parent-role node.
C20_SkeletonKept ==
    /\ [](/\ NumChildren(tree, <<>>) = 1
          /\ NumChildren(tree, ParentPath) = 1
          /\ \A p \in DOMAIN tree :
                Len(p) >= 2 => (p[1] = 1 /\ p[2] = 1))
    /\ [][(inflight # None /\ inflight' = None /\ inflight.node # None)
             => /\ ChildSeq(tree', <<>>) = ChildSeq(tree, <<>>)
                /\ ChildSeq(tree', ParentPath) = ChildSeq(tree, ParentPath)]_vars

\* the parent-role node was selected and DocRoot, which has the navigable
\* link orders, was loaded for it: the self node is still its only child
C20_Witness ==
    /\ inflight = None
    /\ ParentPath \in populated
    /\ log = LogFetched(URoot)
    /\ fetched = DocRoot
    /\ NumChildren(tree, <<>>) = 1
    /\ NumChildren(tree, ParentPath) = 1

=============================================================================
